---- MODULE Spec2Model ----
(***************************************************************************)
(* Model of the image-to-PDF pipeline: the grouping, sorting and            *)
(* concatenation of app.generate_pdf, and the page loop of                  *)
(* image_to_pdf_core.create_pdf_with_images over a reportlab canvas, with   *)
(* the per-image layout arithmetic in IEEE-754 double precision, as Python  *)
(* computes it.                                                             *)
(*                                                                         *)
(* A file name is a sequence of one-character strings, so that the marker   *)
(* test (';' in name) and the priority test (token in name) are real        *)
(* substring tests.  An asset record stands for one Path together with the  *)
(* content of the file it names: equal records are equal paths.             *)
(*                                                                         *)
(* image_paths ranges over every list of paths, as the core functions       *)
(* accept them; in the web application secure_filename removes ';' from an  *)
(* upload's name before it is saved, so group1 is empty there.              *)
(*                                                                         *)
(* Library behaviour the model relies on: reportlab's Canvas.save() closes  *)
(* the page in progress when it holds operations; showPage empties the page *)
(* in progress; PIL's Image.resize raises for a size with a side below 1.   *)
(***************************************************************************)
EXTENDS Integers, Sequences, FiniteSets, TLC

VARIABLES
    image_paths,     \* app.py: the saved uploads, in upload order
    priority_list,   \* app.py: parse_priority_list's result (trimmed, non-empty tokens)
    page_size,       \* "letter" or "A4"
    group1,          \* app.py: split_by_semicolon's first list
    group2,          \* app.py: split_by_semicolon's second list
    sorted_group1,   \* app.py: sort_by_priority(group1, priority_list)
    sorted_group2,   \* app.py: sort_by_priority(group2, priority_list)
    image_files,     \* create_pdf_with_images: the list it is called with
    i,               \* create_pdf_with_images: 1-based position of the loop in image_files
    code,            \* reportlab canvas: drawing operations of the page being built (_code)
    pages,           \* reportlab canvas: the pages closed by showPage, in order
    saved,           \* TRUE once c.save() has written the document
    layout,          \* create_pdf_with_images: the layout locals of the last image opened
    pc,              \* position of the program
    response         \* app.py: what generate_pdf answers

vars == <<image_paths, priority_list, page_size, group1, group2, sorted_group1,
          sorted_group2, image_files, i, code, pages, saved, layout, pc, response>>

----------------------------------------------------------------------------
(* Bounds of the model *)

MaxFiles == 3
MaxPrio == 2
MaxSmallDim == 3

----------------------------------------------------------------------------
(* Strings *)

\* Python's `sub in s` on strings: sub occurs in s as a contiguous run
\* (equality is the case of the run being all of s).
Contains(sub, s) ==
    \E k \in 0..(Len(s) - Len(sub)) :
        \A j \in 1..Len(sub) : s[k + j] = sub[j]

\* ';' in f.name
HasSemicolon(f) == Contains(<<";">>, f.name)

\* priority_item == filename or priority_item in filename
Matches(priority_item, filename) ==
    priority_item = filename \/ Contains(priority_item, filename)

----------------------------------------------------------------------------
(* split_by_semicolon *)

RECURSIVE Comprehension(_, _)
\* [f for f in files if keep(f)], with keep given as the wanted marker value
Comprehension(files, marked) ==
    IF files = <<>> THEN <<>>
    ELSE IF HasSemicolon(Head(files)) = marked
         THEN <<Head(files)>> \o Comprehension(Tail(files), marked)
         ELSE Comprehension(Tail(files), marked)

\* A split that puts every file in the second group
split_all_in_group2(files) == <<Comprehension(files, TRUE), files>>

split_by_semicolon(files) ==
    <<Comprehension(files, TRUE), Comprehension(files, FALSE)>>

----------------------------------------------------------------------------
(* sort_by_priority *)

\* list.index(x): 0-based position of the first element equal to x
ListIndex(files, x) ==
    (CHOOSE k \in 1..Len(files) :
        files[k] = x /\ \A j \in 1..(k - 1) : files[j] # x) - 1

\* 0-based index of the first token matching the name, or -1
FirstMatch(filename, prio) ==
    IF \E k \in 1..Len(prio) : Matches(prio[k], filename)
    THEN (CHOOSE k \in 1..Len(prio) :
             Matches(prio[k], filename)
             /\ \A j \in 1..(k - 1) : ~Matches(prio[j], filename)) - 1
    ELSE -1

\* An unmatched file keyed by its position alone
get_priority_index_no_offset(file_path, files, prio) ==
    IF FirstMatch(file_path.name, prio) >= 0
    THEN FirstMatch(file_path.name, prio)
    ELSE ListIndex(files, file_path)

get_priority_index(file_path, files, prio) ==
    IF FirstMatch(file_path.name, prio) >= 0
    THEN FirstMatch(file_path.name, prio)
    ELSE Len(prio) + ListIndex(files, file_path)

RECURSIVE InsertByKey(_, _, _, _)
\* x placed after every element of the sorted list whose key is <= its own
InsertByKey(x, sortedList, files, prio) ==
    IF sortedList = <<>> THEN <<x>>
    ELSE IF get_priority_index(Head(sortedList), files, prio)
                <= get_priority_index(x, files, prio)
         THEN <<Head(sortedList)>> \o InsertByKey(x, Tail(sortedList), files, prio)
         ELSE <<x>> \o sortedList

RECURSIVE SortedPrefix(_, _, _)
\* sorted() over the first n elements: a stable sort by key
SortedPrefix(files, n, prio) ==
    IF n = 0 THEN <<>>
    ELSE InsertByKey(files[n], SortedPrefix(files, n - 1, prio), files, prio)

sort_by_priority(files, prio) == SortedPrefix(files, Len(files), prio)

\* Groups joined the wrong way round
CombineSwapped(s1, s2) == s2 \o s1

\* final_order = sorted_group1 + sorted_group2
Combine(s1, s2) == s1 \o s2
----------------------------------------------------------------------------
(* Python floats: IEEE-754 binary64, round to nearest, ties to even.        *)
(* A natural number of any size is a little-endian sequence of limbs in     *)
(* 0..LimbBase-1 without leading zero limbs (<<>> is 0); a positive double  *)
(* is [m, e] with value m * 2^e and m of exactly 53 bits.                   *)

LimbBits == 15
LimbBase == 2^15
MantBits == 53

RECURSIVE BTrim(_)
BTrim(a) ==
    IF a # <<>> /\ a[Len(a)] = 0 THEN BTrim(SubSeq(a, 1, Len(a) - 1)) ELSE a

RECURSIVE IntToBig(_)
IntToBig(n) ==
    IF n = 0 THEN <<>> ELSE <<n % LimbBase>> \o IntToBig(n \div LimbBase)

RECURSIVE BToInt(_)
BToInt(a) ==
    IF a = <<>> THEN 0 ELSE a[1] + LimbBase * BToInt(Tail(a))

RECURSIVE BMulC(_, _, _)
\* a * s + c, for 0 <= s <= LimbBase and 0 <= c < LimbBase
BMulC(a, s, c) ==
    IF a = <<>> THEN (IF c = 0 THEN <<>> ELSE <<c>>)
    ELSE LET t == a[1] * s + c
         IN  <<t % LimbBase>> \o BMulC(Tail(a), s, t \div LimbBase)

RECURSIVE BDivFrom(_, _, _, _)
\* limbs k..1 of a divided by s (1 <= s <= LimbBase), r the remainder carried in
BDivFrom(a, s, k, r) ==
    IF k = 0 THEN [q |-> <<>>, r |-> r]
    ELSE LET cur  == r * LimbBase + a[k]
             rest == BDivFrom(a, s, k - 1, cur % s)
         IN  [q |-> rest.q \o <<cur \div s>>, r |-> rest.r]

BDivSmall(a, s) ==
    LET d == BDivFrom(a, s, Len(a), 0) IN [q |-> BTrim(d.q), r |-> d.r]

RECURSIVE SmallBitLen(_)
SmallBitLen(n) == IF n = 0 THEN 0 ELSE 1 + SmallBitLen(n \div 2)

BBitLen(a) ==
    IF a = <<>> THEN 0 ELSE LimbBits * (Len(a) - 1) + SmallBitLen(a[Len(a)])

RECURSIVE BShr(_, _)
\* a shifted right by t bits: [n: the quotient, s: whether a set bit was dropped]
BShr(a, t) ==
    IF t = 0 \/ a = <<>> THEN [n |-> a, s |-> FALSE]
    ELSE IF t >= LimbBits
         THEN LET rest == BShr(Tail(a), t - LimbBits)
              IN  [n |-> rest.n, s |-> rest.s \/ a[1] # 0]
         ELSE LET d == BDivSmall(a, 2^t) IN [n |-> d.q, s |-> d.r # 0]

RECURSIVE BShl(_, _)
BShl(a, t) ==
    IF t = 0 \/ a = <<>> THEN a
    ELSE IF t >= LimbBits THEN <<0>> \o BShl(a, t - LimbBits)
         ELSE BMulC(a, 2^t, 0)

RECURSIVE BAdd1(_)
BAdd1(a) ==
    IF a = <<>> THEN <<1>>
    ELSE IF a[1] + 1 < LimbBase THEN <<a[1] + 1>> \o Tail(a)
         ELSE <<0>> \o BAdd1(Tail(a))

RECURSIVE BSubB(_, _, _)
\* a - b - borrow, for a >= b + borrow (leading zero limbs may remain)
BSubB(a, b, borrow) ==
    IF a = <<>> THEN <<>>
    ELSE LET bl == IF b = <<>> THEN 0 ELSE b[1]
             t  == a[1] - bl - borrow
         IN  <<IF t < 0 THEN t + LimbBase ELSE t>>
             \o BSubB(Tail(a), IF b = <<>> THEN <<>> ELSE Tail(b),
                      IF t < 0 THEN 1 ELSE 0)

RECURSIVE BCmpFrom(_, _, _)
BCmpFrom(a, b, k) ==
    IF k = 0 THEN 0
    ELSE IF a[k] < b[k] THEN -1
         ELSE IF a[k] > b[k] THEN 1 ELSE BCmpFrom(a, b, k - 1)

\* -1, 0 or 1 as a < b, a = b or a > b
BCmp(a, b) ==
    IF Len(a) < Len(b) THEN -1
    ELSE IF Len(a) > Len(b) THEN 1 ELSE BCmpFrom(a, b, Len(a))

IsOdd(a) == a # <<>> /\ a[1] % 2 = 1

\* A mantissa that rounding up has carried to 54 bits is halved
Renormalise(q, e) ==
    IF BBitLen(q) > MantBits THEN [m |-> BShr(q, 1).n, e |-> e + 1]
    ELSE [m |-> q, e |-> e]

\* q with the guard bit and the sticky bit below it, rounded to nearest, ties to even
RoundGuard(q, guard, sticky, e) ==
    Renormalise(IF guard /\ (sticky \/ IsOdd(q)) THEN BAdd1(q) ELSE q, e)

\* g: the number shifted right so that its lowest bit is the guard bit
RoundShifted(g, sticky, e) ==
    RoundGuard(BShr(g.n, 1).n, IsOdd(g.n), g.s \/ sticky, e)

\* d: the number of low bits of n to drop (none, when d <= 0: the value is exact)
RoundDrop(n, sticky, e, d) ==
    IF d <= 0 THEN [m |-> BShl(n, -d), e |-> e + d]
    ELSE RoundShifted(BShr(n, d - 1), sticky, e + d)

\* The double nearest to (n + f) * 2^e, where n > 0 is a natural number and
\* 0 <= f < 1 is zero iff sticky is FALSE (sticky only with n of 54 bits or more)
RoundNE(n, sticky, e) == RoundDrop(n, sticky, e, BBitLen(n) - MantBits)

\* float(n) for an integer n >= 1
FromInt(n) == RoundNE(IntToBig(n), FALSE, 0)

\* x / n in double precision, for a double x and an integer 1 <= n < LimbBase
FDivInt(x, n) ==
    LET d == BDivSmall(<<0, 0>> \o x.m, n)
    IN  RoundNE(d.q, d.r # 0, x.e - 2 * LimbBits)

\* n * x in double precision, for an integer 1 <= n < LimbBase
FMulInt(n, x) == RoundNE(BMulC(x.m, n, 0), FALSE, x.e)

\* x - n in double precision, for a double x with x.e <= 0 and an integer n < x
FSubInt(x, n) ==
    RoundNE(BTrim(BSubB(x.m, BShl(IntToBig(n), -x.e), 0)), FALSE, x.e)

FLe(x, y) == x.e < y.e \/ (x.e = y.e /\ BCmp(x.m, y.m) <= 0)

FLt(x, y) == ~FLe(y, x)

\* min(x, y, z) of Python: the first of the smallest
FMin3(x, y, z) ==
    LET xy == IF FLt(y, x) THEN y ELSE x
    IN  IF FLt(z, xy) THEN z ELSE xy

\* x * 2 (exact)
FTwice(x) == [x EXCEPT !.e = @ + 1]

\* int(x): truncation toward zero, for 0 < x < 2^31
FToInt(x) ==
    IF x.e >= 0 THEN BToInt(BShl(x.m, x.e)) ELSE BToInt(BShr(x.m, -x.e).n)

\* The next double above x
FNextUp(x) ==
    LET m1 == BAdd1(x.m)
    IN  IF BBitLen(m1) > MantBits THEN [m |-> BShr(m1, 1).n, e |-> x.e + 1]
        ELSE [m |-> m1, e |-> x.e]

FOne == FromInt(1)
----------------------------------------------------------------------------
(* Page layout: create_pdf_with_images, from img.size to the resize *)

\* reportlab.lib.pagesizes: letter = (8.5*inch, 11*inch) = (612.0, 792.0);
\* A4 = (210*mm, 297*mm) = (0x1.29a3468d1a347p+9, 0x1.a4f1e3c78f1e5p+9),
\* that is (595.2755905511812, 841.8897637795277)
PageSize(size) ==
    IF size = "A4"
    THEN [width  |-> [m |-> <<9031, 20899, 26833, 148>>, e |-> -43],
          height |-> [m |-> <<29157, 30961, 15480, 210>>, e |-> -43]]
    ELSE [width |-> FromInt(612), height |-> FromInt(792)]

\* A scale ratio without the 1.0 that forbids upscaling
ScaleRatioUncapped(width_ratio, height_ratio) ==
    FMin3(width_ratio, height_ratio, width_ratio)

\* scale_ratio = min(width_ratio, height_ratio, 1.0)
ScaleRatio(width_ratio, height_ratio) == FMin3(width_ratio, height_ratio, FOne)

\* A gate that resizes whenever the target differs from the source
NeedsResizeIfDifferent(img_width, img_height, target_w, target_h) ==
    img_width # target_w \/ img_height # target_h

\* if img_width > target_pixel_width or img_height > target_pixel_height
NeedsResize(img_width, img_height, target_w, target_h) ==
    img_width > target_w \/ img_height > target_h

\* Each stage takes the record of the locals computed so far and the new values.

\* target_pixel_width, target_pixel_height and the resize test
LayoutTarget(l, target_w, target_h) ==
    l @@ [target_pixel_width  |-> target_w,
          target_pixel_height |-> target_h,
          resize |-> NeedsResize(l.img_width, l.img_height, target_w, target_h)]

\* scaled_width = img_width * scale_ratio, scaled_height = img_height * scale_ratio
LayoutScaled(l, scaled_width, scaled_height) ==
    LayoutTarget(l @@ [scaled_width |-> scaled_width, scaled_height |-> scaled_height],
                 FToInt(FTwice(scaled_width)), FToInt(FTwice(scaled_height)))

\* scale_ratio = min(width_ratio, height_ratio, 1.0)
LayoutRatio(l, scale_ratio) ==
    LayoutScaled(l @@ [scale_ratio |-> scale_ratio],
                 FMulInt(l.img_width, scale_ratio), FMulInt(l.img_height, scale_ratio))

\* width_ratio = available_width / img_width, height_ratio likewise
LayoutRatios(l, width_ratio, height_ratio) ==
    LayoutRatio(l @@ [width_ratio |-> width_ratio, height_ratio |-> height_ratio],
                ScaleRatio(width_ratio, height_ratio))

\* available_width = page_width - 100, available_height = page_height - 150
LayoutAvailable(img_width, img_height, available_width, available_height) ==
    LayoutRatios([opened           |-> TRUE,
                  img_width        |-> img_width,
                  img_height       |-> img_height,
                  available_width  |-> available_width,
                  available_height |-> available_height],
                 FDivInt(available_width, img_width),
                 FDivInt(available_height, img_height))

\* The locals of one loop iteration after a successful Image.open
Layout(img_width, img_height, page) ==
    LayoutAvailable(img_width, img_height,
                    FSubInt(page.width, 100), FSubInt(page.height, 150))

\* No image opened yet
NoLayout == [opened |-> FALSE]

\* Image.resize raises ValueError for a size with a zero side
ResizeRaises(lay) ==
    lay.resize /\ (lay.target_pixel_width < 1 \/ lay.target_pixel_height < 1)
----------------------------------------------------------------------------
(* Inputs *)

\* Files on disk: marked and unmarked names, names matched by a token through
\* equality or containment or not at all, readable and unreadable content
Assets ==
    { [name |-> <<"a">>,      ok |-> TRUE,  w |-> 100,  h |-> 80],
      [name |-> <<"a", "b">>, ok |-> TRUE,  w |-> 3000, h |-> 2000],
      [name |-> <<"b">>,      ok |-> FALSE, w |-> 0,    h |-> 0],
      [name |-> <<"a", ";">>, ok |-> TRUE,  w |-> 800,  h |-> 600],
      [name |-> <<";", "c">>, ok |-> FALSE, w |-> 0,    h |-> 0] }

Tokens == { <<"a">>, <<"a", "b">> }

\* Pixel sizes: the smallest ones, and sizes around the thresholds of the layout
\* (the largest keeps width * height within what Image.open accepts)
Dims ==
    (1..MaxSmallDim)
    \cup {100, 495, 496, 512, 513, 580, 642, 643, 692, 1023, 1024, 1025,
          1043, 1052, 1284, 1285, 2000, 5000, 10000}

SeqsUpTo(S, n) == UNION { [1..k -> S] : k \in 0..n }

PageSizes == {"letter", "A4"}

----------------------------------------------------------------------------
(* State machine *)

Idle ==
    /\ group1 = <<>> /\ group2 = <<>>
    /\ sorted_group1 = <<>> /\ sorted_group2 = <<>>
    /\ i = 0 /\ code = <<>> /\ pages = <<>> /\ saved = FALSE
    /\ layout = NoLayout /\ response = "none"

\* generate_pdf after the uploads are saved and the form is parsed
Init ==
    /\ image_paths \in SeqsUpTo(Assets, MaxFiles)
    /\ priority_list \in SeqsUpTo(Tokens, MaxPrio)
    /\ page_size \in PageSizes
    /\ image_files = <<>>
    /\ pc = "request"
    /\ Idle

\* create_pdf_with_images called on its own with any list
InitComposer ==
    /\ image_files \in SeqsUpTo(Assets, MaxFiles)
    /\ page_size \in PageSizes
    /\ image_paths = <<>> /\ priority_list = <<>>
    /\ pc = "create"
    /\ Idle

\* create_pdf_with_images called with one readable image of any size
InitLayout ==
    /\ \E w \in Dims, h \in Dims :
          image_files = << [name |-> <<"a">>, ok |-> TRUE, w |-> w, h |-> h] >>
    /\ page_size \in PageSizes
    /\ image_paths = <<>> /\ priority_list = <<>>
    /\ pc = "create"
    /\ Idle

\* if not image_paths: return 400
RejectNoImages ==
    /\ pc = "request"
    /\ image_paths = <<>>
    /\ pc' = "done"
    /\ response' = "400"
    /\ UNCHANGED <<image_paths, priority_list, page_size, group1, group2,
                   sorted_group1, sorted_group2, image_files, i, code, pages,
                   saved, layout>>

\* group1, group2 = split_by_semicolon(image_paths)
SplitGroups ==
    /\ pc = "request"
    /\ image_paths # <<>>
    /\ group1' = split_by_semicolon(image_paths)[1]
    /\ group2' = split_by_semicolon(image_paths)[2]
    /\ pc' = "sort"
    /\ UNCHANGED <<image_paths, priority_list, page_size, sorted_group1,
                   sorted_group2, image_files, i, code, pages, saved, layout,
                   response>>

\* The two sorts, the concatenation, and the call of create_pdf_with_images
SortGroups ==
    /\ pc = "sort"
    /\ sorted_group1' = sort_by_priority(group1, priority_list)
    /\ sorted_group2' = sort_by_priority(group2, priority_list)
    /\ image_files' = Combine(sorted_group1', sorted_group2')
    /\ pc' = "create"
    /\ UNCHANGED <<image_paths, priority_list, page_size, group1, group2, i,
                   code, pages, saved, layout, response>>

\* A guard that lets the empty list through
NoImagesNever(files) == FALSE

\* if not image_files
NoImages(files) == files = <<>>

\* The empty-list return, or the new canvas
BeginCreate ==
    /\ pc = "create"
    /\ IF NoImages(image_files)
       THEN pc' = "returned" /\ UNCHANGED <<i, code, pages>>
       ELSE pc' = "loop" /\ i' = 1 /\ code' = <<>> /\ pages' = <<>>
    /\ UNCHANGED <<image_paths, priority_list, page_size, group1, group2,
                   sorted_group1, sorted_group2, image_files, saved, layout,
                   response>>

\* The heading band and the label, drawn before the image is opened (the colour
\* and font settings around them are folded into the two; an operation records the
\* position of its asset in image_files, not the text of the label)
Heading(k) == << [op |-> "rect", of |-> k], [op |-> "drawString", of |-> k] >>

DrawImage(k) == << [op |-> "drawImage", of |-> k] >>

\* One loop iteration that reaches showPage
RenderPage ==
    /\ pc = "loop"
    /\ i <= Len(image_files)
    /\ image_files[i].ok
    /\ \E lay \in {Layout(image_files[i].w, image_files[i].h, PageSize(page_size))} :
          /\ ~ResizeRaises(lay)
          /\ layout' = lay
    /\ pages' = Append(pages, code \o Heading(i) \o DrawImage(i))
    /\ code' = <<>>
    /\ i' = i + 1
    /\ UNCHANGED <<image_paths, priority_list, page_size, group1, group2,
                   sorted_group1, sorted_group2, image_files, saved, pc,
                   response>>

\* One loop iteration that ends in the except clause: Image.open or
\* Image.resize raised, after the heading was drawn and before showPage
SkipAsset ==
    /\ pc = "loop"
    /\ i <= Len(image_files)
    /\ IF image_files[i].ok
       THEN \E lay \in {Layout(image_files[i].w, image_files[i].h,
                               PageSize(page_size))} :
               /\ ResizeRaises(lay)
               /\ layout' = lay
       ELSE layout' = layout
    /\ code' = code \o Heading(i)
    /\ i' = i + 1
    /\ UNCHANGED <<image_paths, priority_list, page_size, group1, group2,
                   sorted_group1, sorted_group2, image_files, pages, saved, pc,
                   response>>

\* c.save(): reportlab closes the page in progress when it holds operations
\* ("if len(self._code): self.showPage()"), then writes the file
SavePdf ==
    /\ pc = "loop"
    /\ i > Len(image_files)
    /\ pages' = IF code # <<>> THEN Append(pages, code) ELSE pages
    /\ code' = <<>>
    /\ saved' = TRUE
    /\ pc' = "returned"
    /\ UNCHANGED <<image_paths, priority_list, page_size, group1, group2,
                   sorted_group1, sorted_group2, image_files, i, layout,
                   response>>

\* return send_file(output_pdf)
SendFile ==
    /\ pc = "returned"
    /\ pc' = "done"
    /\ response' = IF saved THEN "pdf" ELSE "500"
    /\ UNCHANGED <<image_paths, priority_list, page_size, group1, group2,
                   sorted_group1, sorted_group2, image_files, i, code, pages,
                   saved, layout>>

ComposerNext == BeginCreate \/ RenderPage \/ SkipAsset \/ SavePdf

Next == RejectNoImages \/ SplitGroups \/ SortGroups \/ ComposerNext \/ SendFile

Spec == Init /\ [][Next]_vars

SpecComposer == InitComposer /\ [][ComposerNext]_vars

SpecLayout == InitLayout /\ [][ComposerNext]_vars
----------------------------------------------------------------------------
(* Vocabulary of the properties *)

\* The name holds the marker character
NameHasMarker(f) == \E k \in 1..Len(f.name) : f.name[k] = ";"

IsMarked(f) == NameHasMarker(f)

IsUnmarked(f) == ~NameHasMarker(f)

\* Number of occurrences of x in the sequence
Count(x, seq) == Cardinality({k \in 1..Len(seq) : seq[k] = x})

SameBag(s1, s2) == \A x \in Assets : Count(x, s1) = Count(x, s2)

\* The sorts and the concatenation have run
Sorted == pc \in {"create", "loop", "returned"} \/ (pc = "done" /\ response # "400")

\* The composer has returned after c.save()
Finalized == pc = "returned" /\ saved

OkPositions == {k \in 1..Len(image_files) : image_files[k].ok}

----------------------------------------------------------------------------
(* C2: group order *)

\* C2: in the final order sort_by_priority(group1) + sort_by_priority(group2),
\* no asset without ';' in its name stands before an asset with ';' in its name,
\* whatever the input sequence and the priority list.
C2_GroupOrder ==
    Sorted =>
        /\ SameBag(image_files, image_paths)
        /\ \A p, q \in 1..Len(image_files) :
              (IsUnmarked(image_files[p]) /\ IsMarked(image_files[q])) => q < p

\* A marked asset that matches no token stands first, ahead of an unmarked asset
\* that matches the first token and was uploaded before it.
C2_Witness ==
    /\ pc = "create"
    /\ Len(image_files) >= 2
    /\ Len(priority_list) >= 1
    /\ IsMarked(image_files[1])
    /\ \A k \in 1..Len(priority_list) : ~Matches(priority_list[k], image_files[1].name)
    /\ IsUnmarked(image_files[2])
    /\ Matches(priority_list[1], image_files[2].name)
    /\ image_paths[1] = image_files[2]

----------------------------------------------------------------------------
(* C3: priority determinism *)

\* In the output, an asset matching the token at index t stands before every asset
\* that matches no token at an index <= t
PriorityOrdered(out, prio) ==
    \A p, q \in 1..Len(out) : \A t \in 1..Len(prio) :
        (/\ Matches(prio[t], out[p].name)
         /\ \A j \in 1..t : ~Matches(prio[j], out[q].name))
        => p < q

\* C3: within one sort_by_priority call the output holds the input's assets, and an
\* asset whose name equals or contains the token at index t precedes every asset
\* that matches no token at an index <= t (so matched precede unmatched).
C3_PriorityDeterminism ==
    Sorted =>
        /\ SameBag(sorted_group1, group1)
        /\ SameBag(sorted_group2, group2)
        /\ PriorityOrdered(sorted_group1, priority_list)
        /\ PriorityOrdered(sorted_group2, priority_list)

\* One call moved three assets: the input held an unmatched asset, then one matching
\* only the second token, then one matching the first token; the output is reversed.
C3_Witness ==
    /\ pc = "create"
    /\ Len(priority_list) = 2
    /\ Len(group2) = 3
    /\ \A k \in 1..2 : ~Matches(priority_list[k], group2[1].name)
    /\ ~Matches(priority_list[1], group2[2].name)
    /\ Matches(priority_list[2], group2[2].name)
    /\ Matches(priority_list[1], group2[3].name)
    /\ sorted_group2 = <<group2[3], group2[2], group2[1]>>

----------------------------------------------------------------------------
(* C4: stability *)

\* The assets of the sequence whose first matching token has 0-based index k
\* (k = -1: the assets matching no token), in the order of the sequence
WithFirstMatch(seq, prio, k) ==
    LET Test(f) == FirstMatch(f.name, prio) = k IN SelectSeq(seq, Test)

StableOn(inp, out, prio) ==
    \A k \in (-1)..(Len(prio) - 1) :
        WithFirstMatch(out, prio, k) = WithFirstMatch(inp, prio, k)

\* C4: for every input of sort_by_priority, two equal paths included, the assets
\* with the same first-matching index keep their input order and the assets matching
\* no token come out in exactly their input order.
C4_Stability ==
    Sorted =>
        /\ StableOn(group1, sorted_group1, priority_list)
        /\ StableOn(group2, sorted_group2, priority_list)

----------------------------------------------------------------------------
(* C5: partition *)

MarkedOf(seq) == SelectSeq(seq, IsMarked)

UnmarkedOf(seq) == SelectSeq(seq, IsUnmarked)

\* C5: split_by_semicolon puts every input asset in exactly one of the two lists, as
\* many times as the input holds it; the first list holds exactly the assets whose
\* name contains ';'; each list is the input restricted to its members, in input order.
C5_Partition ==
    (pc # "request" /\ response # "400") =>
        /\ \A x \in Assets :
              /\ Count(x, group1) + Count(x, group2) = Count(x, image_paths)
              /\ Count(x, group1) = 0 \/ Count(x, group2) = 0
        /\ \A k \in 1..Len(group1) : NameHasMarker(group1[k])
        /\ \A k \in 1..Len(group2) : ~NameHasMarker(group2[k])
        /\ group1 = MarkedOf(image_paths)
        /\ group2 = UnmarkedOf(image_paths)

\* The split of three uploads that alternate marked, unmarked, marked, the first
\* and the last being the same path.
C5_Witness ==
    /\ pc = "sort"
    /\ Len(image_paths) = 3
    /\ NameHasMarker(image_paths[1])
    /\ ~NameHasMarker(image_paths[2])
    /\ image_paths[3] = image_paths[1]
    /\ group1 = <<image_paths[1], image_paths[3]>>
    /\ group2 = <<image_paths[2]>>

----------------------------------------------------------------------------
(* C7: the empty list *)

\* C7: given an empty list, create_pdf_with_images returns at once: it never enters
\* the page loop (nothing can raise), closes no page, draws nothing and writes no file.
C7_DegenerateInput ==
    image_files = <<>> =>
        /\ pc \in {"create", "returned"}
        /\ pages = <<>>
        /\ code = <<>>
        /\ ~saved

\* The composer has returned from a call with the empty list.
C7_Witness == pc = "returned" /\ image_files = <<>>

----------------------------------------------------------------------------
(* C1 and C9: skipped assets *)

\* C1: a batch of N >= 1 readable assets and exactly one unreadable asset, at any
\* position, gives a finalized document of exactly N pages.
C1_FaultIsolation ==
    (/\ Finalized
     /\ Cardinality(OkPositions) >= 1
     /\ Cardinality(OkPositions) = Len(image_files) - 1)
    => Len(pages) = Cardinality(OkPositions)

\* The asset whose operations the page carries, when they all belong to one asset
\* and are its band, its label and its image
PageOf(page) == page[1].of

IsPageOfOneAsset(page) ==
    /\ Len(page) = 3
    /\ page[1].op = "rect" /\ page[2].op = "drawString" /\ page[3].op = "drawImage"
    /\ \A k \in 1..3 : page[k].of = page[1].of

\* C9: every page of the finalized document carries the band, the label and the
\* image of exactly one successfully processed asset and nothing of another; the
\* pages are those of the successful assets in final order.
C9_NoTraceOfSkipped ==
    Finalized =>
        /\ \A k \in 1..Len(pages) :
              /\ IsPageOfOneAsset(pages[k])
              /\ PageOf(pages[k]) \in OkPositions
        /\ \A k \in 1..(Len(pages) - 1) : PageOf(pages[k]) < PageOf(pages[k + 1])
        /\ Len(pages) = Cardinality(OkPositions)

----------------------------------------------------------------------------
(* C6: fit-within scaling *)

\* The scale ratio is the least of the two quotients and 1.0
RatioIsMin(lay) ==
    /\ FLe(lay.scale_ratio, lay.width_ratio)
    /\ FLe(lay.scale_ratio, lay.height_ratio)
    /\ FLe(lay.scale_ratio, FOne)
    /\ lay.scale_ratio \in {lay.width_ratio, lay.height_ratio, FOne}

\* The available area of the page chosen: 512 x 642 on letter, and on A4
\* (595.2756 x 841.8898) between 495 x 691 and 496 x 692
AvailableAreaOfPage(lay) ==
    IF page_size = "A4"
    THEN /\ FLt(FromInt(495), lay.available_width)
         /\ FLt(lay.available_width, FromInt(496))
         /\ FLt(FromInt(691), lay.available_height)
         /\ FLt(lay.available_height, FromInt(692))
    ELSE /\ lay.available_width = FromInt(512)
         /\ lay.available_height = FromInt(642)

NoLargerThanImage(lay) ==
    /\ FLe(lay.scaled_width, FromInt(lay.img_width))
    /\ FLe(lay.scaled_height, FromInt(lay.img_height))

\* C6 as stated: the ratio is min(availableWidth/imgWidth, availableHeight/imgHeight, 1),
\* never above 1, and the draw rectangle exceeds neither the image's own size nor
\* the available width or height.
C6_FitWithin_AsStated ==
    layout.opened =>
        /\ AvailableAreaOfPage(layout)
        /\ RatioIsMin(layout)
        /\ NoLargerThanImage(layout)
        /\ FLe(layout.scaled_width, layout.available_width)
        /\ FLe(layout.scaled_height, layout.available_height)

\* C6 amended: the ratio is the least of the two double-precision quotients and 1.0,
\* never above 1; the draw rectangle never exceeds the image's own size, and it
\* exceeds the available width or height by at most one unit in the last place
\* (it is never above the next double after the available width or height).
C6_FitWithin ==
    layout.opened =>
        /\ AvailableAreaOfPage(layout)
        /\ RatioIsMin(layout)
        /\ NoLargerThanImage(layout)
        /\ FLe(layout.scaled_width, FNextUp(layout.available_width))
        /\ FLe(layout.scaled_height, FNextUp(layout.available_height))

\* A page was rendered for an image scaled down to the available height, and the
\* rounded product img_height * scale_ratio came out above the available height.
C6_Witness ==
    /\ Finalized
    /\ Len(pages) = 1
    /\ layout.opened
    /\ layout.scale_ratio = layout.height_ratio
    /\ FLt(layout.scale_ratio, FOne)
    /\ FLt(layout.available_height, layout.scaled_height)

----------------------------------------------------------------------------
(* C8 and C10: the resampling gate *)

\* n = int(2 * x) for a positive double x
IsIntOfTwice(n, x) ==
    /\ n >= 0
    /\ n >= 1 => FLe(FromInt(n), FTwice(x))
    /\ FLt(FTwice(x), FromInt(n + 1))

\* C8: the resample target is (int(2*drawWidth), int(2*drawHeight)); the image is
\* resized exactly when the source exceeds the target in width or in height, and
\* then the target is no larger than the source in both dimensions.
C8_ResamplingGate ==
    layout.opened =>
        /\ IsIntOfTwice(layout.target_pixel_width, layout.scaled_width)
        /\ IsIntOfTwice(layout.target_pixel_height, layout.scaled_height)
        /\ layout.resize <=>
              (\/ layout.img_width > layout.target_pixel_width
               \/ layout.img_height > layout.target_pixel_height)
        /\ layout.resize =>
              (/\ layout.target_pixel_width <= layout.img_width
               /\ layout.target_pixel_height <= layout.img_height)

\* A page was rendered from an image that was resized to a smaller, non-empty target.
C8_Witness ==
    /\ Finalized
    /\ Len(pages) = 1
    /\ layout.opened
    /\ layout.resize
    /\ layout.target_pixel_width >= 1
    /\ layout.target_pixel_width < layout.img_width
    /\ layout.target_pixel_height >= 1
    /\ layout.target_pixel_height < layout.img_height

\* C10: for an image of width and height >= 1, whenever the resize is applied both
\* sides of its target are at least 1.
C10_ValidResampleTarget ==
    (layout.opened /\ layout.resize) =>
        /\ layout.target_pixel_width >= 1
        /\ layout.target_pixel_height >= 1

====
